---- MODULE Spec2Model ----
(***************************************************************************)
(* Model of baseline/evaluation_measures.py: the confusion counts          *)
(* (intermediate_at_measures), their accumulation over batches             *)
(* (get_f_measure_by_class), the per-class F-measure (macro_f_measure),    *)
(* the per-file event lists handed to sed_eval (get_event_list_current_file*)
(* and the two *_evaluation_df loops) and the audio tagging comparison     *)
(* (format_df, audio_tagging_results).                                     *)
(*                                                                         *)
(* A numpy 2-D array is a non-empty sequence of rows, each row a sequence  *)
(* of 0/1 entries; a 1-D array is a sequence.  A float is a fraction in    *)
(* lowest terms.  A DataFrame is a sequence of row records.                *)
(***************************************************************************)
EXTENDS Integers, Sequences, FiniteSets, TLC

VARIABLES
    call,               \* the function being executed
    pc,                 \* its position
    dataloader_,        \* the batches (labels, batch_predictions) the generator has yielded
    encoded_ref,        \* arguments of the latest intermediate_at_measures call
    encoded_est,
    tp_, fp_, fn_, tn_, \* what that call returned
    tp, fp, fn, tn,     \* the local count vectors of the running function
    ret,                \* the value the function returned
    reference,          \* the reference DataFrame
    estimated,          \* the estimated DataFrame
    evaluated_files,    \* reference["filename"].unique()
    nextfile,           \* position of the for loop over evaluated_files
    evaluate_calls,     \* the calls received by the sed_eval metric, in order
    classes,            \* list(set(classes))
    reference_fmt,      \* format_df(reference, mhe)
    estimated_fmt,      \* format_df(estimated, mhe)
    matching            \* the merged table

vars == <<call, pc, dataloader_, encoded_ref, encoded_est, tp_, fp_, fn_, tn_,
          tp, fp, fn, tn, ret, reference, estimated, evaluated_files, nextfile,
          evaluate_calls, classes, reference_fmt, estimated_fmt, matching>>

accVars == <<dataloader_>>
atVars == <<encoded_ref, encoded_est, tp_, fp_, fn_, tn_>>
cntVars == <<tp, fp, fn, tn>>
dfVars == <<reference, estimated>>
evVars == <<evaluated_files, nextfile, evaluate_calls>>
tagVars == <<classes, reference_fmt, estimated_fmt, matching>>

----------------------------------------------------------------------------
(* Bounds *)

NbTags == 2         \* nb_tags, the number of classes of a batch
MaxBatch == 2       \* rows of one batch
MaxBatches == 2     \* batches of a dataloader
MaxCells == 6       \* entries of the label arrays of a whole dataset
MaxShapeRows == 3   \* rows of an array whose shape is not constrained
MaxShapeCols == 2   \* columns of such an array
MaxShapeCells == 7  \* entries of all the arrays of a dataset of such arrays
MaxCount == 1       \* largest count handed to macro_f_measure directly
NFiles == 2         \* filenames of the tables
NLabels == 2        \* event labels of the tables
MaxTable == 2       \* rows of a table
MaxEvalRows == 3    \* rows of the two tables of an evaluation together
MaxTagRows == 2     \* rows of the two tables of audio_tagging_results together

----------------------------------------------------------------------------
(* numpy *)

None == "None"
ValueError == "ValueError"

Min(a, b) == IF a <= b THEN a ELSE b
Max(a, b) == IF a >= b THEN a ELSE b

RECURSIVE GCD(_, _)
GCD(a, b) == IF b = 0 THEN a ELSE GCD(b, a % b)

\* a float, as a fraction in lowest terms
Float(n, d) == [num |-> n \div GCD(n, d), den |-> d \div GCD(n, d)]
Zero == [num |-> 0, den |-> 1]
NaN == [num |-> 0, den |-> 0]

\* numpy's true division of two non-negative numbers
TrueDivide(a, b) == IF b = 0 THEN NaN ELSE Float(a, b)

\* np.zeros(n)
Zeros(n) == [c \in 1..n |-> 0]
FloatZeros(n) == [c \in 1..n |-> Zero]

\* shape of a 2-D array
Shape(a) == <<Len(a), Len(a[1])>>

\* numpy broadcasting of one dimension; -1 when the sizes are incompatible
BroadcastDim(x, y) ==
    IF x = y THEN x ELSE IF x = 1 THEN y ELSE IF y = 1 THEN x ELSE -1

Broadcastable(a, b) ==
    /\ BroadcastDim(Len(a), Len(b)) # -1
    /\ BroadcastDim(Len(a[1]), Len(b[1])) # -1

\* entry (i, j) of a seen through broadcasting
At(a, i, j) == a[IF Len(a) = 1 THEN 1 ELSE i][IF Len(a[1]) = 1 THEN 1 ELSE j]

RECURSIVE SumTo(_, _)
SumTo(f, n) == IF n = 0 THEN 0 ELSE f[n] + SumTo(f, n - 1)

\* (boolean array of shape (n, m)).sum(axis=0)
SumAxis0(b, n, m) ==
    [j \in 1..m |-> SumTo([i \in 1..n |-> IF b[i][j] THEN 1 ELSE 0], n)]

\* acc += v on 1-D arrays: v is broadcast to the shape of acc, or the add
\* raises ValueError
InplaceAddRaises(acc, v) == Len(v) # Len(acc) /\ Len(v) # 1

\* acc = v in place of acc += v
InplaceAssign(acc, v) ==
    [c \in 1..Len(acc) |-> IF Len(v) = 1 THEN v[1] ELSE v[c]]

InplaceAdd(acc, v) ==
    [c \in 1..Len(acc) |-> acc[c] + (IF Len(v) = 1 THEN v[1] ELSE v[c])]

\* the 0/1 arrays of shape (n, m)
Arrays(n, m) == [1..n -> [1..m -> {0, 1}]]

----------------------------------------------------------------------------
(* intermediate_at_measures *)

\* the true negatives counted as the entries where the two arrays agree
intermediate_at_measures_agree(ref, est) ==
         LET n == BroadcastDim(Len(ref), Len(est))
             m == BroadcastDim(Len(ref[1]), Len(est[1]))
             is_tp == [i \in 1..n |-> [j \in 1..m |-> At(est, i, j) + At(ref, i, j) = 2]]
             is_fp == [i \in 1..n |-> [j \in 1..m |-> At(est, i, j) - At(ref, i, j) = 1]]
             is_fn == [i \in 1..n |-> [j \in 1..m |-> At(ref, i, j) - At(est, i, j) = 1]]
             is_tn == [i \in 1..n |-> [j \in 1..m |-> At(est, i, j) - At(ref, i, j) = 0]]
         IN  <<SumAxis0(is_tp, n, m), SumAxis0(is_fp, n, m),
               SumAxis0(is_fn, n, m), SumAxis0(is_tn, n, m)>>

\* the false positives and the false negatives exchanged
intermediate_at_measures_swapped(ref, est) ==
         LET n == BroadcastDim(Len(ref), Len(est))
             m == BroadcastDim(Len(ref[1]), Len(est[1]))
             is_tp == [i \in 1..n |-> [j \in 1..m |-> At(est, i, j) + At(ref, i, j) = 2]]
             is_fp == [i \in 1..n |-> [j \in 1..m |-> At(ref, i, j) - At(est, i, j) = 1]]
             is_fn == [i \in 1..n |-> [j \in 1..m |-> At(est, i, j) - At(ref, i, j) = 1]]
             is_tn == [i \in 1..n |-> [j \in 1..m |-> At(est, i, j) + At(ref, i, j) = 0]]
         IN  <<SumAxis0(is_tp, n, m), SumAxis0(is_fp, n, m),
               SumAxis0(is_fn, n, m), SumAxis0(is_tn, n, m)>>

\* the elementwise sums and differences raise ValueError when the shapes
\* cannot be broadcast together
intermediate_at_measures_raises(ref, est) == ~Broadcastable(ref, est)

intermediate_at_measures(ref, est) ==
         LET n == BroadcastDim(Len(ref), Len(est))
             m == BroadcastDim(Len(ref[1]), Len(est[1]))
             is_tp == [i \in 1..n |-> [j \in 1..m |-> At(est, i, j) + At(ref, i, j) = 2]]
             is_fp == [i \in 1..n |-> [j \in 1..m |-> At(est, i, j) - At(ref, i, j) = 1]]
             is_fn == [i \in 1..n |-> [j \in 1..m |-> At(ref, i, j) - At(est, i, j) = 1]]
             is_tn == [i \in 1..n |-> [j \in 1..m |-> At(est, i, j) + At(ref, i, j) = 0]]
         IN  <<SumAxis0(is_tp, n, m), SumAxis0(is_fp, n, m),
               SumAxis0(is_fn, n, m), SumAxis0(is_tn, n, m)>>

----------------------------------------------------------------------------
(* macro_f_measure, and the same computation inlined in                    *)
(* get_f_measure_by_class                                                  *)

\* mask_f_score = 2 * tp + fp + fn != 0
mask_f_score(tp0, fp0, fn0) == [c \in 1..Len(tp0) |-> 2 * tp0[c] + fp0[c] + fn0[c] # 0]

\* the division done on every class, the mask left out
macro_f_measure_unmasked(tp0, fp0, fn0) ==
    [c \in 1..Len(tp0) |-> TrueDivide(2 * tp0[c], 2 * tp0[c] + fp0[c] + fn0[c])]

\* the true positives counted once in the denominator
macro_f_measure_denominator(tp0, fp0, fn0) ==
    LET macro_f_score == FloatZeros(Len(tp0))
        mask == mask_f_score(tp0, fp0, fn0)
    IN  [c \in 1..Len(tp0) |->
            IF mask[c] THEN TrueDivide(2 * tp0[c], tp0[c] + fp0[c] + fn0[c])
            ELSE macro_f_score[c]]

macro_f_measure(tp0, fp0, fn0) ==
    LET macro_f_score == FloatZeros(Len(tp0))
        mask == mask_f_score(tp0, fp0, fn0)
    IN  [c \in 1..Len(tp0) |->
            IF mask[c] THEN TrueDivide(2 * tp0[c], 2 * tp0[c] + fp0[c] + fn0[c])
            ELSE macro_f_score[c]]

f_measure_by_class(nb_tags, tp0, fp0, fn0) ==
    LET zeros == FloatZeros(nb_tags)
        mask == mask_f_score(tp0, fp0, fn0)
    IN  [c \in 1..nb_tags |->
            IF mask[c] THEN TrueDivide(2 * tp0[c], (2 * tp0[c] + fp0[c] + fn0[c]))
            ELSE zeros[c]]

----------------------------------------------------------------------------
(* get_f_measure_by_class *)

\* batches whose labels and predictions have the shape (examples, nb_tags)
SameShapeBatches(rows) ==
    UNION {{[y |-> a, pred |-> b] : a \in Arrays(n, NbTags), b \in Arrays(n, NbTags)} :
           n \in 1..Min(MaxBatch, rows)}

Cells(a) == Len(a) * Len(a[1])

AnyArrays(cells) ==
    UNION {Arrays(s[1], s[2]) :
           s \in {t \in (1..MaxShapeRows) \X (1..MaxShapeCols) : t[1] * t[2] <= cells}}

\* batches whose labels and predictions have any shape
AnyShapeBatches(cells) ==
    UNION {{[y |-> a, pred |-> b] : b \in AnyArrays(cells - Cells(a))} : a \in AnyArrays(cells)}

\* rows of a whole dataset of batches of nb_tags columns
MaxExamples == MaxCells \div NbTags

RECURSIVE NumExamples(_)
NumExamples(batches) ==
    IF batches = <<>> THEN 0
    ELSE Max(Len(Head(batches).y), Len(Head(batches).pred)) + NumExamples(Tail(batches))

RECURSIVE NumCells(_)
NumCells(batches) ==
    IF batches = <<>> THEN 0
    ELSE Cells(Head(batches).y) + Cells(Head(batches).pred) + NumCells(Tail(batches))

Idle ==
    /\ dataloader_ = <<>>
    /\ encoded_ref = None /\ encoded_est = None
    /\ tp_ = None /\ fp_ = None /\ fn_ = None /\ tn_ = None
    /\ ret = None
    /\ reference = <<>> /\ estimated = <<>>
    /\ evaluated_files = <<>> /\ nextfile = 0 /\ evaluate_calls = <<>>
    /\ classes = <<>> /\ reference_fmt = <<>> /\ estimated_fmt = <<>> /\ matching = <<>>

\* lines 43-46: the running totals start at zero
InitGetFMeasure ==
    /\ Idle
    /\ call = "get_f_measure_by_class" /\ pc = "loop"
    /\ tp = Zeros(NbTags) /\ tn = Zeros(NbTags)
    /\ fp = Zeros(NbTags) /\ fn = Zeros(NbTags)

\* lines 47-84: one iteration of the loop, on the batch b of the generator;
\* b.y is labels and b.pred is batch_predictions, the arrays that lines 48-78
\* make of the batch and of the output of the model
LoopBody(b) ==
    /\ dataloader_' = Append(dataloader_, b)
    /\ encoded_ref' = b.y
    /\ encoded_est' = b.pred
    /\ IF intermediate_at_measures_raises(b.y, b.pred)
       THEN /\ pc' = "raised"
            /\ UNCHANGED <<tp_, fp_, fn_, tn_, cntVars>>
       ELSE LET r == intermediate_at_measures(b.y, b.pred) IN
            /\ tp_' = r[1] /\ fp_' = r[2] /\ fn_' = r[3] /\ tn_' = r[4]
            /\ IF InplaceAddRaises(tp, r[1])
               THEN pc' = "raised" /\ UNCHANGED cntVars
               ELSE /\ pc' = "loop"
                    /\ tp' = InplaceAdd(tp, r[1])
                    /\ fp' = InplaceAdd(fp, r[2])
                    /\ fn' = InplaceAdd(fn, r[3])
                    /\ tn' = InplaceAdd(tn, r[4])
    /\ UNCHANGED <<call, ret, dfVars, evVars, tagVars>>

\* the generator yields a batch of labels and predictions of one shape
SameShapeBatch ==
    /\ call = "get_f_measure_by_class" /\ pc = "loop"
    /\ Len(dataloader_) < MaxBatches
    /\ \E b \in SameShapeBatches(MaxExamples - NumExamples(dataloader_)) : LoopBody(b)

\* the generator yields a batch of labels and predictions of any shapes
AnyShapeBatch ==
    /\ call = "get_f_measure_by_class" /\ pc = "loop"
    /\ Len(dataloader_) < MaxBatches
    /\ \E b \in AnyShapeBatches(MaxShapeCells - NumCells(dataloader_)) : LoopBody(b)

\* lines 86-90: the generator is exhausted
LoopEnd ==
    /\ call = "get_f_measure_by_class" /\ pc = "loop"
    /\ ret' = f_measure_by_class(NbTags, tp, fp, fn)
    /\ pc' = "done"
    /\ UNCHANGED <<call, accVars, atVars, cntVars, dfVars, evVars, tagVars>>

----------------------------------------------------------------------------
(* macro_f_measure called on its own *)

Counts == [1..NbTags -> 0..MaxCount]

InitMacroF ==
    /\ Idle
    /\ call = "macro_f_measure" /\ pc = "call"
    /\ tp \in Counts /\ fp \in Counts /\ fn \in Counts
    /\ tn = None

MacroF ==
    /\ call = "macro_f_measure" /\ pc = "call"
    /\ ret' = macro_f_measure(tp, fp, fn)
    /\ pc' = "done"
    /\ UNCHANGED <<call, accVars, atVars, cntVars, dfVars, evVars, tagVars>>

----------------------------------------------------------------------------
(* pandas *)

NA == "nan"
isna(v) == v = NA

FileNames == <<"a.wav", "b.wav", "c.wav", "d.wav">>
LabelNames == <<"cat", "dog", "speech", "dishes">>
Files == {FileNames[i] : i \in 1..NFiles}
Labels == {LabelNames[i] : i \in 1..NLabels}

\* the rows of a table of strong labels: a labelled event, or the row of a
\* file without events, whose onset, offset and label are missing
TableRows ==
    {[filename |-> f, onset |-> NA, offset |-> NA, event_label |-> NA] : f \in Files}
    \cup {[filename |-> f, onset |-> "0.0", offset |-> "1.0", event_label |-> l] :
          f \in Files, l \in Labels}

Tables == UNION {[1..k -> TableRows] : k \in 0..MaxTable}

\* every value kept, duplicates included
not_unique(s) == s

\* Series.unique(): the distinct values in order of first appearance
RECURSIVE unique(_)
unique(s) ==
    IF s = <<>> THEN <<>>
    ELSE LET front == unique(SubSeq(s, 1, Len(s) - 1))
             last == s[Len(s)]
         IN  IF \E i \in 1..Len(front) : front[i] = last THEN front ELSE Append(front, last)

column(df, name) == [i \in 1..Len(df) |-> df[i][name]]

\* Series.dropna()
dropna(s) == LET present(v) == ~isna(v) IN SelectSeq(s, present)

\* df[df["filename"] == fname]
rows_of_file(df, fname) == LET of_file(row) == row.filename = fname IN SelectSeq(df, of_file)

\* DataFrame.to_dict('records'): one dictionary per row, keyed by the columns
to_dict_records(df) ==
    [i \in 1..Len(df) |->
        [filename |-> df[i].filename, onset |-> df[i].onset,
         offset |-> df[i].offset, event_label |-> df[i].event_label]]

\* list(set(s)): the distinct values in an order the program does not choose
list_of_set(s) ==
    LET values == {s[i] : i \in 1..Len(s)}
    IN  {l \in [1..Cardinality(values) -> values] :
            \A i, j \in 1..Cardinality(values) : l[i] = l[j] => i = j}

----------------------------------------------------------------------------
(* get_event_list_current_file *)

\* the filename-only record returned for every file whose first row has no label
get_event_list_current_file_first_row(df, fname) ==
    LET event_file == rows_of_file(df, fname)
    IN  IF Len(event_file) >= 1 /\ isna(event_file[1].event_label)
        THEN <<[filename |-> fname]>>
        ELSE to_dict_records(event_file)

\* no filename-only record at all
get_event_list_current_file_records(df, fname) == to_dict_records(rows_of_file(df, fname))

get_event_list_current_file(df, fname) ==
    LET event_file == rows_of_file(df, fname)
    IN  IF Len(event_file) = 1
        THEN IF isna(event_file[1].event_label)
             THEN <<[filename |-> fname]>>
             ELSE to_dict_records(event_file)
        ELSE to_dict_records(event_file)

----------------------------------------------------------------------------
(* event_based_evaluation_df and segment_based_evaluation_df *)

InitEvaluation(function) ==
    /\ call = function /\ pc = "start"
    /\ reference \in Tables /\ estimated \in Tables
    /\ Len(reference) + Len(estimated) <= MaxEvalRows
    /\ dataloader_ = <<>>
    /\ encoded_ref = None /\ encoded_est = None
    /\ tp_ = None /\ fp_ = None /\ fn_ = None /\ tn_ = None
    /\ tp = None /\ fp = None /\ fn = None /\ tn = None
    /\ ret = None
    /\ evaluated_files = <<>> /\ nextfile = 0 /\ evaluate_calls = <<>>
    /\ classes = <<>> /\ reference_fmt = <<>> /\ estimated_fmt = <<>> /\ matching = <<>>

\* lines 141-153 and 168-178: the files to evaluate, the classes, the metric
MetricSetup(function) ==
    /\ call = function /\ pc = "start"
    /\ evaluated_files' = unique(column(reference, "filename"))
    /\ classes' \in list_of_set(unique(dropna(column(reference, "event_label")))
                                \o unique(dropna(column(estimated, "event_label"))))
    /\ nextfile' = 1
    /\ pc' = "loop"
    /\ UNCHANGED <<call, ret, accVars, atVars, cntVars, dfVars, evaluate_calls,
                   reference_fmt, estimated_fmt, matching>>

\* lines 155-162 and 180-187: one iteration of the loop over evaluated_files
EvaluateFile(function) ==
    /\ call = function /\ pc = "loop"
    /\ nextfile <= Len(evaluated_files)
    /\ LET fname == evaluated_files[nextfile]
           reference_event_list_for_current_file == get_event_list_current_file(reference, fname)
           estimated_event_list_for_current_file == get_event_list_current_file(estimated, fname)
       IN  evaluate_calls' = Append(evaluate_calls,
               [reference_event_list |-> reference_event_list_for_current_file,
                estimated_event_list |-> estimated_event_list_for_current_file])
    /\ nextfile' = nextfile + 1
    /\ UNCHANGED <<call, pc, ret, accVars, atVars, cntVars, dfVars, evaluated_files, tagVars>>

\* lines 164 and 189: the metric is returned
ReturnMetric(function) ==
    /\ call = function /\ pc = "loop"
    /\ nextfile > Len(evaluated_files)
    /\ ret' = "metric"
    /\ pc' = "done"
    /\ UNCHANGED <<call, accVars, atVars, cntVars, dfVars, evVars, tagVars>>

EventBasedSetup == MetricSetup("event_based_evaluation_df")
EventBasedEvaluate == EvaluateFile("event_based_evaluation_df")
EventBasedReturn == ReturnMetric("event_based_evaluation_df")
SegmentBasedSetup == MetricSetup("segment_based_evaluation_df")
SegmentBasedEvaluate == EvaluateFile("segment_based_evaluation_df")
SegmentBasedReturn == ReturnMetric("segment_based_evaluation_df")

----------------------------------------------------------------------------
(* format_df and audio_tagging_results, on tables of strong labels *)

\* position of a filename in the lexicographic order
FileRank(f) == CHOOSE i \in 1..Len(FileNames) : FileNames[i] = f

\* the filenames of S in lexicographic order
RECURSIVE sorted(_)
sorted(S) ==
    IF S = {} THEN <<>>
    ELSE LET least == CHOOSE f \in S : \A g \in S : FileRank(f) <= FileRank(g)
         IN  <<least>> \o sorted(S \ {least})

filenames(df) == {df[i].filename : i \in 1..Len(df)}

\* ManyHotEncoder.encode_weak: the multi-hot vector of a list of labels over
\* the labels of the encoder
encode_weak(labels, event_labels) ==
    [c \in 1..Len(labels) |-> IF \E i \in 1..Len(event_labels) : event_labels[i] = labels[c]
                              THEN 1 ELSE 0]

\* a cell of a table holding a numpy array, and a cell holding a float
ndarray(v) == [type |-> "ndarray", data |-> v]
float(v) == [type |-> "float", data |-> v]

\* join_labels, lines 276-278, on the rows x of one file
join_labels(x, labels) ==
    [filename |-> x[1].filename,
     event_label |-> ndarray(encode_weak(labels, dropna(unique(column(x, "event_label")))))]

\* lines 280-282: the tables have the columns onset and offset, so the rows
\* are grouped by filename, the groups in the order of their keys
format_df(df, labels) ==
    LET keys == sorted(filenames(df))
    IN  [g \in 1..Len(keys) |-> join_labels(rows_of_file(df, keys[g]), labels)]

RECURSIVE flatten(_)
flatten(ss) == IF ss = <<>> THEN <<>> ELSE Head(ss) \o flatten(Tail(ss))

\* the rows the merge makes for one key: every pair of a left and a right row
\* with that key, a missing side filled with NaN
merged_rows(left, right, key) ==
    LET l == rows_of_file(left, key)
        r == rows_of_file(right, key)
    IN  IF r = <<>>
        THEN [i \in 1..Len(l) |->
                [filename |-> key, event_label_ref |-> l[i].event_label,
                 event_label_pred |-> float(NA)]]
        ELSE IF l = <<>>
        THEN [j \in 1..Len(r) |->
                [filename |-> key, event_label_ref |-> float(NA),
                 event_label_pred |-> r[j].event_label]]
        ELSE flatten([i \in 1..Len(l) |-> [j \in 1..Len(r) |->
                [filename |-> key, event_label_ref |-> l[i].event_label,
                 event_label_pred |-> r[j].event_label]]])

\* a left join in place of the outer join
merge_left(left, right) ==
    LET keys == sorted(filenames(left))
    IN  flatten([k \in 1..Len(keys) |-> merged_rows(left, right, keys[k])])

\* line 300: reference.merge(estimated, how='outer', on="filename",
\* suffixes=["_ref", "_pred"]); pandas puts the keys of an outer join in
\* lexicographic order
merge_outer(left, right) ==
    LET keys == sorted(filenames(left) \cup filenames(right))
    IN  flatten([k \in 1..Len(keys) |-> merged_rows(left, right, keys[k])])

\* a missing vector left as it is
na_values_kept(val, labels) == val

\* lines 302-307
na_values(val, labels) ==
    IF val.type = "ndarray" THEN val
    ELSE IF isna(val.data) THEN ndarray(Zeros(Len(labels)))
    ELSE val

InitTagging ==
    /\ call = "audio_tagging_results" /\ pc = "start"
    /\ reference \in Tables /\ estimated \in Tables
    /\ Len(reference) + Len(estimated) <= MaxTagRows
    /\ dataloader_ = <<>>
    /\ encoded_ref = None /\ encoded_est = None
    /\ tp_ = None /\ fp_ = None /\ fn_ = None /\ tn_ = None
    /\ tp = None /\ fp = None /\ fn = None /\ tn = None
    /\ ret = None
    /\ evaluated_files = <<>> /\ nextfile = 0 /\ evaluate_calls = <<>>
    /\ classes = <<>> /\ reference_fmt = <<>> /\ estimated_fmt = <<>> /\ matching = <<>>

\* lines 286-293: the classes of both tables, the encoder, the weak labels
TaggingFormat ==
    /\ call = "audio_tagging_results" /\ pc = "start"
    /\ \E labels \in list_of_set(unique(dropna(column(reference, "event_label")))
                                 \o unique(dropna(column(estimated, "event_label")))) :
         /\ classes' = labels
         /\ reference_fmt' = format_df(reference, labels)
         /\ estimated_fmt' = format_df(estimated, labels)
    /\ pc' = "formatted"
    /\ UNCHANGED <<call, ret, accVars, atVars, cntVars, dfVars, evVars, matching>>

\* line 300
TaggingMerge ==
    /\ call = "audio_tagging_results" /\ pc = "formatted"
    /\ matching' = merge_outer(reference_fmt, estimated_fmt)
    /\ pc' = "merged"
    /\ UNCHANGED <<call, ret, accVars, atVars, cntVars, dfVars, evVars,
                   classes, reference_fmt, estimated_fmt>>

\* lines 309-320
TaggingScore ==
    /\ call = "audio_tagging_results" /\ pc = "merged"
    /\ IF estimated_fmt # <<>>
       THEN LET filled == [k \in 1..Len(matching) |->
                              [filename |-> matching[k].filename,
                               event_label_ref |-> na_values(matching[k].event_label_ref, classes),
                               event_label_pred |-> na_values(matching[k].event_label_pred, classes)]]
                ref == [k \in 1..Len(filled) |-> filled[k].event_label_ref.data]
                est == [k \in 1..Len(filled) |-> filled[k].event_label_pred.data]
            IN  /\ matching' = filled
                /\ encoded_ref' = ref
                /\ encoded_est' = est
                /\ IF intermediate_at_measures_raises(ref, est)
                   THEN /\ pc' = "raised"
                        /\ UNCHANGED <<tp_, fp_, fn_, tn_, cntVars, ret>>
                   ELSE LET r == intermediate_at_measures(ref, est) IN
                        /\ tp_' = r[1] /\ fp_' = r[2] /\ fn_' = r[3] /\ tn_' = r[4]
                        /\ tp' = r[1] /\ fp' = r[2] /\ fn' = r[3] /\ tn' = r[4]
                        /\ ret' = [index |-> classes, values |-> macro_f_measure(r[1], r[2], r[3])]
                        /\ pc' = "done"
       ELSE /\ ret' = [index |-> classes, values |-> FloatZeros(Len(classes))]
            /\ pc' = "done"
            /\ UNCHANGED <<matching, atVars, cntVars>>
    /\ UNCHANGED <<call, accVars, dfVars, evVars, classes, reference_fmt, estimated_fmt>>

----------------------------------------------------------------------------

Init == InitGetFMeasure \/ InitMacroF
Next == SameShapeBatch \/ LoopEnd \/ MacroF
Spec == Init /\ [][Next]_vars

InitShape == InitGetFMeasure
NextShape == AnyShapeBatch \/ LoopEnd
SpecShape == InitShape /\ [][NextShape]_vars

InitEvent ==
    InitEvaluation("event_based_evaluation_df") \/ InitEvaluation("segment_based_evaluation_df")
NextEvent ==
    \/ EventBasedSetup \/ EventBasedEvaluate \/ EventBasedReturn
    \/ SegmentBasedSetup \/ SegmentBasedEvaluate \/ SegmentBasedReturn
SpecEvent == InitEvent /\ [][NextEvent]_vars

NextTagging == TaggingFormat \/ TaggingMerge \/ TaggingScore
SpecTagging == InitTagging /\ [][NextTagging]_vars

----------------------------------------------------------------------------
(* Properties of the confusion counts and of their accumulation *)

SameShape(b) == Shape(b.y) = Shape(b.pred) /\ Len(b.y[1]) = NbTags

AllSameShape(batches) == \A i \in 1..Len(batches) : SameShape(batches[i])

\* C1: in get_f_measure_by_class, after every accumulation step over batches
\* of 0/1 arrays of one shape, tp + fp + fn + tn of every class is the
\* number of examples processed so far.
C1_CountsSumToExamples ==
    (call = "get_f_measure_by_class" /\ AllSameShape(dataloader_)) =>
        \A c \in 1..NbTags : tp[c] + fp[c] + fn[c] + tn[c] = NumExamples(dataloader_)

C1_Witness ==
    /\ call = "get_f_measure_by_class" /\ pc = "loop"
    /\ Len(dataloader_) = 2 /\ NumExamples(dataloader_) = 3
    /\ tp[1] = 1 /\ fp[1] = 1 /\ tn[1] = 1 /\ fn[2] = 3

Orderings(n) == {p \in [1..n -> 1..n] : \A i, j \in 1..n : p[i] = p[j] => i = j}

RECURSIVE ConcatY(_, _, _)
ConcatY(batches, p, k) ==
    IF k = 0 THEN <<>> ELSE ConcatY(batches, p, k - 1) \o batches[p[k]].y

RECURSIVE ConcatPred(_, _, _)
ConcatPred(batches, p, k) ==
    IF k = 0 THEN <<>> ELSE ConcatPred(batches, p, k - 1) \o batches[p[k]].pred

\* the elementwise sum of the four vectors returned on the first k batches
\* taken in the order p
RECURSIVE SumOfBatches(_, _, _)
SumOfBatches(batches, p, k) ==
    IF k = 0 THEN [q \in 1..4 |-> [c \in 1..NbTags |-> 0]]
    ELSE LET s == SumOfBatches(batches, p, k - 1)
             r == intermediate_at_measures(batches[p[k]].y, batches[p[k]].pred)
         IN  [q \in 1..4 |-> [c \in 1..NbTags |-> s[q][c] + r[q][c]]]

\* C2: for any split of a dataset into batches and any order of the batches,
\* the elementwise sum of the per-batch (tp, fp, fn, tn) is the
\* (tp, fp, fn, tn) of one call on the concatenation of all batches; the
\* running totals of get_f_measure_by_class are that sum.
C2_BatchSumIsConcatenation ==
    (call = "get_f_measure_by_class" /\ dataloader_ # <<>> /\ AllSameShape(dataloader_)) =>
        LET k == Len(dataloader_)
            id == [i \in 1..k |-> i]
            whole == intermediate_at_measures(ConcatY(dataloader_, id, k),
                                              ConcatPred(dataloader_, id, k))
        IN  /\ \A p \in Orderings(k) :
                 /\ SumOfBatches(dataloader_, p, k) = whole
                 /\ intermediate_at_measures(ConcatY(dataloader_, p, k),
                                             ConcatPred(dataloader_, p, k)) = whole
            /\ <<tp, fp, fn, tn>> = whole

C2_Witness ==
    /\ call = "get_f_measure_by_class" /\ pc = "loop"
    /\ Len(dataloader_) = 2
    /\ dataloader_[1] # dataloader_[2]
    /\ Len(dataloader_[1].y) = 2 /\ Len(dataloader_[2].y) = 1
    /\ tp = <<2, 0>> /\ fn = <<0, 1>> /\ fp = <<1, 1>>

\* C3: on 0/1 arrays of one shape intermediate_at_measures returns, in the
\* order (tp, fp, fn, tn) and for every class c, the number of rows with
\* ref = est = 1, with ref = 0 and est = 1, with ref = 1 and est = 0, and
\* with ref = est = 0.
C3_CountsAreCardinalities ==
    (call = "get_f_measure_by_class" /\ dataloader_ # <<>>
        /\ Shape(encoded_ref) = Shape(encoded_est) /\ pc # "raised") =>
        LET rows == 1..Len(encoded_ref)
            Rows(r, e, c) == {i \in rows : encoded_ref[i][c] = r /\ encoded_est[i][c] = e}
        IN  /\ Len(tp_) = Len(encoded_ref[1]) /\ Len(fp_) = Len(encoded_ref[1])
            /\ Len(fn_) = Len(encoded_ref[1]) /\ Len(tn_) = Len(encoded_ref[1])
            /\ \A c \in 1..Len(encoded_ref[1]) :
                 /\ tp_[c] = Cardinality(Rows(1, 1, c))
                 /\ fp_[c] = Cardinality(Rows(0, 1, c))
                 /\ fn_[c] = Cardinality(Rows(1, 0, c))
                 /\ tn_[c] = Cardinality(Rows(0, 0, c))

C3_Witness ==
    /\ call = "get_f_measure_by_class" /\ dataloader_ # <<>>
    /\ Len(encoded_ref) = 2
    /\ tp_ = <<1, 0>> /\ fp_ = <<1, 0>> /\ fn_ = <<0, 2>> /\ tn_ = <<0, 0>>

----------------------------------------------------------------------------
(* Properties of the F-measure *)

\* C4: for non-negative counts macro_f_measure returns one entry per class,
\* F_c = 2 tp_c / (2 tp_c + fp_c + fn_c) where that denominator is not zero
\* and 0 where it is, never the outcome of a division by zero, and the
\* computation at the end of get_f_measure_by_class gives the same value.
C4_FMeasureFormula ==
    (call \in {"macro_f_measure", "get_f_measure_by_class"} /\ pc = "done") =>
        /\ Len(ret) = Len(tp)
        /\ \A c \in 1..Len(tp) :
             LET d == 2 * tp[c] + fp[c] + fn[c]
             IN  /\ ret[c] # NaN /\ ret[c].den > 0
                 /\ IF d # 0 THEN ret[c].num * d = 2 * tp[c] * ret[c].den
                    ELSE ret[c].num = 0
        /\ ret = macro_f_measure(tp, fp, fn)
        /\ ret = f_measure_by_class(NbTags, tp, fp, fn)

C4_Witness ==
    /\ call = "macro_f_measure" /\ pc = "done"
    /\ tp = <<0, 1>> /\ fp = <<0, 1>> /\ fn = <<0, 0>>
    /\ ret = <<Zero, [num |-> 2, den |-> 3]>>

\* C5 as stated: every F_c is in [0, 1], and F_c = 0 exactly when
\* tp_c = fp_c = fn_c = 0.
C5_ZeroIffAllZero ==
    (call = "macro_f_measure" /\ pc = "done") =>
        \A c \in 1..Len(tp) :
            /\ 0 <= ret[c].num /\ ret[c].num <= ret[c].den
            /\ (ret[c].num = 0) <=> (tp[c] = 0 /\ fp[c] = 0 /\ fn[c] = 0)

\* C5 amended: every F_c returned by macro_f_measure is in [0, 1], and
\* F_c = 0 exactly when tp_c = 0.
C5_ZeroIffNoTruePositive ==
    (call = "macro_f_measure" /\ pc = "done") =>
        \A c \in 1..Len(tp) :
            /\ ret[c].den > 0
            /\ 0 <= ret[c].num /\ ret[c].num <= ret[c].den
            /\ (ret[c].num = 0) <=> (tp[c] = 0)

C5_Witness ==
    /\ call = "macro_f_measure" /\ pc = "done"
    /\ tp = <<0, 1>> /\ fp = <<1, 0>> /\ fn = <<1, 0>>
    /\ ret = <<Zero, [num |-> 1, den |-> 1]>>

----------------------------------------------------------------------------
(* Arrays of different shapes *)

\* C9: a batch whose reference and estimate arrays differ in shape ends the
\* call with an error: no counts are returned and the running totals stay
\* as they were.
C9_ShapeMismatchRaises ==
    [][(dataloader_' # dataloader_ /\ Shape(encoded_ref') # Shape(encoded_est')) =>
            (pc' = "raised" /\ UNCHANGED <<tp_, fp_, fn_, tn_, tp, fp, fn, tn>>)]_vars

----------------------------------------------------------------------------
(* Properties of the event lists handed to the metric *)

InEvaluation == call \in {"event_based_evaluation_df", "segment_based_evaluation_df"}

\* the positions of the rows of df for the file f
RowsOf(df, f) == {i \in 1..Len(df) : df[i].filename = f}

\* list holds one record per row of df for the file f, in table order, each
\* with the row's filename, onset, offset and event_label
OneRecordPerRow(list, df, f) ==
    /\ Len(list) = Cardinality(RowsOf(df, f))
    /\ \E at \in [1..Len(list) -> RowsOf(df, f)] :
         /\ \A j, k \in 1..Len(list) : j < k => at[j] < at[k]
         /\ \A k \in 1..Len(list) :
              /\ DOMAIN list[k] = {"filename", "onset", "offset", "event_label"}
              /\ list[k].filename = df[at[k]].filename
              /\ list[k].onset = df[at[k]].onset
              /\ list[k].offset = df[at[k]].offset
              /\ list[k].event_label = df[at[k]].event_label

\* what the claim C6 expects of get_event_list_current_file(df, f)
EventListAsSpecified(list, df, f) ==
    IF Cardinality(RowsOf(df, f)) = 1 /\ \A i \in RowsOf(df, f) : df[i].event_label = NA
    THEN list = <<[filename |-> f]>>
    ELSE OneRecordPerRow(list, df, f)

\* C6: get_event_list_current_file returns [{filename: fname}] if exactly one
\* row matches fname and its event_label is null, and otherwise one record
\* per matching row, in table order, with that row's filename, onset, offset
\* and event_label.
C6_EventListPolicy ==
    InEvaluation =>
        \A k \in 1..Len(evaluate_calls) :
            /\ EventListAsSpecified(evaluate_calls[k].reference_event_list,
                                    reference, evaluated_files[k])
            /\ EventListAsSpecified(evaluate_calls[k].estimated_event_list,
                                    estimated, evaluated_files[k])

\* one null row gives the filename-only record, two labelled rows of one file
\* give two records in table order
C6_Witness ==
    /\ InEvaluation /\ pc = "done"
    /\ Len(evaluate_calls) = 1
    /\ evaluate_calls[1].reference_event_list = <<[filename |-> "a.wav"]>>
    /\ Len(estimated) = 2
    /\ Len(evaluate_calls[1].estimated_event_list) = 2
    /\ evaluate_calls[1].estimated_event_list[1].event_label = "dog"
    /\ evaluate_calls[1].estimated_event_list[2].event_label = "cat"

NoLabelledRow(df, f) == \A i \in RowsOf(df, f) : df[i].event_label = NA

\* C7 as stated: whenever the table holds no row with a non-null event_label
\* for the filename, the list handed to the metric is exactly [{filename}].
C7_AlwaysFilenameOnly ==
    InEvaluation =>
        \A k \in 1..Len(evaluate_calls) :
            /\ NoLabelledRow(reference, evaluated_files[k]) =>
                 evaluate_calls[k].reference_event_list = <<[filename |-> evaluated_files[k]]>>
            /\ NoLabelledRow(estimated, evaluated_files[k]) =>
                 evaluate_calls[k].estimated_event_list = <<[filename |-> evaluated_files[k]]>>

\* what C7 amended expects of the list made from df for a file f without
\* labelled row
NoEventList(list, df, f) ==
    /\ Cardinality(RowsOf(df, f)) = 1 => list = <<[filename |-> f]>>
    /\ Cardinality(RowsOf(df, f)) = 0 => list = <<>>
    /\ Cardinality(RowsOf(df, f)) > 1 =>
         /\ Len(list) = Cardinality(RowsOf(df, f))
         /\ \A j \in 1..Len(list) :
              /\ "event_label" \in DOMAIN list[j]
              /\ list[j].event_label = NA /\ list[j].filename = f

\* C7 amended: for a filename without labelled row in the table, the list
\* handed to the metric is exactly [{filename}] when the table holds exactly
\* one row for it, the empty list when it holds none (only possible for the
\* estimated table), and one record with a null event_label per row when it
\* holds several; the reference list is never empty.
C7_FilenameOnlyForSingleNullRow ==
    InEvaluation =>
        \A k \in 1..Len(evaluate_calls) :
            /\ evaluate_calls[k].reference_event_list # <<>>
            /\ NoLabelledRow(reference, evaluated_files[k]) =>
                 NoEventList(evaluate_calls[k].reference_event_list,
                             reference, evaluated_files[k])
            /\ NoLabelledRow(estimated, evaluated_files[k]) =>
                 NoEventList(evaluate_calls[k].estimated_event_list,
                             estimated, evaluated_files[k])

\* a file with two null rows in the reference and a single null row in the
\* estimate
C7_Witness ==
    /\ InEvaluation /\ pc = "done"
    /\ Len(evaluate_calls) = 1
    /\ Len(evaluate_calls[1].reference_event_list) = 2
    /\ NoLabelledRow(reference, evaluated_files[1])
    /\ evaluate_calls[1].estimated_event_list = <<[filename |-> evaluated_files[1]]>>

FirstRow(df, f) == CHOOSE i \in RowsOf(df, f) : \A j \in RowsOf(df, f) : i <= j

\* the file a call of evaluate is about
FileOfCall(k) == evaluate_calls[k].reference_event_list[1].filename

\* C10: evaluate is invoked exactly once per distinct filename of the
\* reference table, in order of first appearance, and for no other filename;
\* a reference file without row in the estimated table gets the empty
\* estimated list.
C10_OneEvaluatePerReferenceFile ==
    (InEvaluation /\ pc # "start") =>
        LET ReferenceFiles == {reference[i].filename : i \in 1..Len(reference)}
            n == Len(evaluate_calls)
        IN  /\ \A k \in 1..n :
                 /\ evaluate_calls[k].reference_event_list # <<>>
                 /\ FileOfCall(k) \in ReferenceFiles
                 /\ \A j \in 1..Len(evaluate_calls[k].reference_event_list) :
                      evaluate_calls[k].reference_event_list[j].filename = FileOfCall(k)
                 /\ \A j \in 1..Len(evaluate_calls[k].estimated_event_list) :
                      evaluate_calls[k].estimated_event_list[j].filename = FileOfCall(k)
                 /\ RowsOf(estimated, FileOfCall(k)) = {} =>
                      evaluate_calls[k].estimated_event_list = <<>>
            /\ \A j, k \in 1..n :
                 j < k => FirstRow(reference, FileOfCall(j)) < FirstRow(reference, FileOfCall(k))
            /\ pc = "done" => \A f \in ReferenceFiles : \E k \in 1..n : FileOfCall(k) = f

\* a.wav twice in the reference, b.wav only in the estimate: one call, for
\* a.wav, with the empty estimated list
C10_Witness ==
    /\ InEvaluation /\ pc = "done"
    /\ Len(reference) = 2 /\ reference[1].filename = "a.wav" /\ reference[2].filename = "a.wav"
    /\ Len(estimated) = 1 /\ estimated[1].filename = "b.wav"
    /\ Len(evaluate_calls) = 1
    /\ FileOfCall(1) = "a.wav"
    /\ evaluate_calls[1].estimated_event_list = <<>>

----------------------------------------------------------------------------
(* Properties of the merged table of audio_tagging_results *)

\* the labels of both tables
Vocabulary ==
    ({reference[i].event_label : i \in 1..Len(reference)}
     \cup {estimated[i].event_label : i \in 1..Len(estimated)}) \ {NA}

AllZero(v, n) == Len(v) = n /\ \A c \in 1..n : v[c] = 0

====
